---- MODULE Spec2Model ----
(***************************************************************************)
(* Model of rt_translator.py: the coordinator loop of main() (frame        *)
(* slicing, energy VAD result, segmentation, partial / final emission),    *)
(* translate_text, and TTSWorker (say, _drain_queue, _run).                *)
(*                                                                         *)
(* Time is in integer milliseconds.  Texts are sequences of one-character  *)
(* strings so that strip() and len() are computed, not assumed.            *)
(***************************************************************************)
EXTENDS Integers, Sequences, FiniteSets, TLC

(* ------------------------- program constants ------------------------- *)
PAUSE_MS == 800
PARTIAL_EVERY == 1200
MIN_PARTIAL_CHARS == 6

(* ------------------------------ bounds ------------------------------- *)
\* full-size frames the coordinator processes in one run
MaxFrames == 4
\* value of time.time() (ms) when the loop starts; the epoch clock is far
\* above PARTIAL_EVERY, so the first throttle test always passes
StartTime == 2000
\* calls of tts.say made by the second producer thread (SpecProducers only)
MaxCalls == 2
\* frames the coordinator processes beside a second producer (SpecProducers)
MaxFramesProducers == 2
\* calls of translate_text in SpecTranslate
MaxTrCalls == 1

(* ------------------------------- texts ------------------------------- *)
WS == {" ", "\t"}

T_empty == <<>>
T_blank == <<" ">>
T_five == <<"b", "u", "e", "n", "a">>
T_six == <<"b", "u", "e", "n", "o", "s">>
T_pad == <<" ", "b", "u", "e", "n", "o", "s", " ">>
T_long == <<"b", "u", "e", "n", "o", "s", " ", "d", "i", "a", "s">>
E_good == <<"g", "o", "o", "d">>
E_day == <<"g", "o", "o", "d", " ", "d", "a", "y">>

\* hypotheses the recognizer may hold (raw, before strip)
Hyps == {T_five, T_pad, T_long}

\* texts rec.FinalResult() may deliver (raw, before strip)
Finals == {T_empty, T_pad}

RECURSIVE LStrip(_)
LStrip(s) == IF s # <<>> /\ Head(s) \in WS THEN LStrip(Tail(s)) ELSE s

RECURSIVE RStrip(_)
RStrip(s) ==
    IF s # <<>> /\ s[Len(s)] \in WS THEN RStrip(SubSeq(s, 1, Len(s) - 1)) ELSE s

\* str.strip()
Strip(s) == RStrip(LStrip(s))

(* --------------------------- translate_text -------------------------- *)
SrcLang == "es"
TgtLang == "en"

\* what tr.get_installed_languages() may hold
InstalledSets == {{}, {"es"}, {"en"}, {"es", "en"}}

\* language codes translate_text may be called with
Langs == {"es", "en", "fr"}

\* texts translate_text may be called with
TrTexts == {T_empty, T_blank, T_five, T_six, T_long}

\* the environments of translate_text tried inside the coordinator loop
TrEnvs == {<<{"es", "en"}, "ok">>, <<{"es", "en"}, "blank">>}
\* what the Argos engine does on this call
EngineOutcomes == {"ok", "blank", "raise_langs", "raise_get", "raise_translate"}

\* translation.translate(text) of the installed es->en package
EngineTranslate(text) ==
    CASE text = T_six -> E_good
      [] text = T_long -> E_day
      [] OTHER -> text

\* mutant: the except branch returns "" instead of the input text
translate_text_drops(src, tgt, text, installed, eng) ==
    IF eng = "raise_langs"
    THEN [out |-> T_empty, warnings |-> 1, raised |-> FALSE]
    ELSE IF ~(src \in installed /\ tgt \in installed)
    THEN [out |-> text, warnings |-> 1, raised |-> FALSE]
    ELSE IF eng \in {"raise_get", "raise_translate"}
    THEN [out |-> T_empty, warnings |-> 1, raised |-> FALSE]
    ELSE IF eng = "blank"
    THEN [out |-> T_blank, warnings |-> 0, raised |-> FALSE]
    ELSE [out |-> EngineTranslate(text), warnings |-> 0, raised |-> FALSE]

\* translate_text(src, tgt, text) under an environment (installed, eng):
\* the returned text, the number of warnings printed, whether it raised
translate_text(src, tgt, text, installed, eng) ==
    IF eng = "raise_langs"
    THEN \* tr.get_installed_languages() raises: except branch
         [out |-> text, warnings |-> 1, raised |-> FALSE]
    ELSE IF ~(src \in installed /\ tgt \in installed)
    THEN \* if not from_lang or not to_lang
         [out |-> text, warnings |-> 1, raised |-> FALSE]
    ELSE IF eng \in {"raise_get", "raise_translate"}
    THEN \* get_translation or translate raises: except branch
         [out |-> text, warnings |-> 1, raised |-> FALSE]
    ELSE IF eng = "blank"
    THEN [out |-> T_blank, warnings |-> 0, raised |-> FALSE]
    ELSE [out |-> EngineTranslate(text), warnings |-> 0, raised |-> FALSE]

(* ------------------------ segmenter conditions ----------------------- *)
\* mutant: the pause test is strict
PauseElapsed_strict(t, last) == t - last > PAUSE_MS

\* (now - last_voice_time) * 1000.0 >= PAUSE_MS
PauseElapsed(t, last) == t - last >= PAUSE_MS

\* mutant: any silent frame after voice closes the phrase
FinalizeDue_nopause(voice, t, last) == voice

\* got_voice and (now - last_voice_time) * 1000.0 >= PAUSE_MS
FinalizeDue(voice, t, last) == voice /\ PauseElapsed(t, last)

\* mutant: the throttle test admits equality
PartialDue_ge(enabled, t, lastEmit) == enabled /\ t - lastEmit >= PARTIAL_EVERY

\* mutant: the --partials flag is not looked at
PartialDue_anyway(enabled, t, lastEmit) == t - lastEmit > PARTIAL_EVERY

\* args.partials and (now - partial_last_emit) * 1000.0 > PARTIAL_EVERY
PartialDue(enabled, t, lastEmit) == enabled /\ t - lastEmit > PARTIAL_EVERY

\* mutant: the comparison with partial_buf_text is missing
AcceptPartial_nodedupe(partial, buf) ==
    partial # <<>> /\ Len(partial) >= MIN_PARTIAL_CHARS

\* partial and partial != partial_buf_text and len(partial) >= MIN_PARTIAL_CHARS
AcceptPartial(partial, buf) ==
    partial # <<>> /\ partial # buf /\ Len(partial) >= MIN_PARTIAL_CHARS

\* mutant: the recognizer is kept after FinalResult
ReuseSession(r) == r

\* rec = KaldiRecognizer(model, SAMPLE_RATE): a fresh session, nothing fed
FreshSession(r) == [id |-> r.id + 1, fed |-> 0]

\* mutant: the partial buffer survives the finalize
BufKept(buf) == buf

\* partial_buf_text = "" on finalize
BufAfterFinalize(buf) == T_empty

\* mutant: got_voice is not cleared
GotVoiceStaysSet == TRUE

\* got_voice = False on finalize
GotVoiceAfterFinalize == FALSE

\* mutant: the final branch is entered whatever the text
EmitFinal_always(final) == TRUE

\* if final:
EmitFinal(final) == final # <<>>

\* mutant: say never drains
SayDrains_never(text, priority) == FALSE

\* mutant: say drains before it looks at the text
SayDrains_unchecked(text, priority) == priority = 1

\* say reaches _drain_queue: the stripped text is not empty and
\* priority == 1
SayDrains(text, priority) == text # <<>> /\ priority = 1

\* mutant: the frame is not given to the session
AcceptWaveform_skip(r) == r

\* rec.AcceptWaveform(frame): the session takes the frame
AcceptWaveform(r) == [r EXCEPT !.fed = @ + 1]

(* ------------------------------- state ------------------------------- *)
VARIABLES
    \* main(): coordinator locals
    now, last_voice_time, got_voice, partial_buf_text, partial_last_emit,
    rec, partials, chunk, main_pc, say_job,
    \* TTSWorker
    q, worker_pc, worker_job,
    \* a second thread calling tts.say (SpecProducers)
    p2_pc, p2_job, p2_calls,
    \* history
    frames, ev, hist, sess, partials_emitted, jobs, trlog

mainVars == <<now, last_voice_time, got_voice, partial_buf_text,
              partial_last_emit, rec, partials, chunk, main_pc, say_job>>
ttsVars == <<q, worker_pc, worker_job>>
p2Vars == <<p2_pc, p2_job, p2_calls>>
histVars == <<frames, ev, hist, sess, partials_emitted, jobs, trlog>>
vars == <<mainVars, ttsVars, p2Vars, histVars>>

NoJob == [text |-> T_empty, lang |-> "", id |-> 0, priority |-> 0]
\* no hypothesis was read from the recognizer
NoRead == [id |-> 0, fed |-> 0]
\* history of a frame beyond the segmenter's decision: the session a
\* hypothesis was read from (as it was at the read), the final text, whether
\* translate_text was called, what tts.say did ("none": not called,
\* "empty": returned on empty text, "job": went on with a job) and the id
\* of that job (0: none)
NoX == [read |-> NoRead, final |-> T_empty, translated |-> FALSE,
        said |-> "none", job |-> 0]
NoEv == [kind |-> "none", fin |-> FALSE, part |-> FALSE, t |-> 0,
         hadSpeech |-> FALSE, silence |-> 0, sinceEmit |-> 0,
         hyp |-> T_empty, read |-> NoRead, final |-> T_empty,
         translated |-> FALSE, said |-> "none", job |-> 0]
NoTr == [calls |-> 0]

\* chunks audio_q.get() may return: frames classified by is_speech_energy
\* ("S" speech, "N" silence) and "x", a trailing slice shorter than
\* frame_bytes
Chunks == {<<"S">>, <<"N">>, <<"S", "N", "x">>}

Init ==
    /\ now = StartTime
    /\ last_voice_time = 0
    /\ got_voice = FALSE
    /\ partial_buf_text = T_empty
    /\ partial_last_emit = 0
    /\ rec = [id |-> 1, fed |-> 0]
    /\ partials \in BOOLEAN
    /\ chunk = <<>>
    /\ main_pc = "pull"
    /\ say_job = NoJob
    /\ q = <<>>
    /\ worker_pc = "get"
    /\ worker_job = NoJob
    /\ p2_pc = "idle"
    /\ p2_job = NoJob
    /\ p2_calls = 0
    /\ frames = 0
    /\ ev = NoEv
    /\ hist = [speechSince |-> FALSE, lastSpeechT |-> 0, anySpeech |-> FALSE,
               runCrossed |-> 0, runFinals |-> 0]
    /\ sess = [finalized |-> {}, misuse |-> FALSE, finals |-> 0, resets |-> 0]
    /\ partials_emitted = <<>>
    /\ jobs = [next |-> 1, drained |-> {}, taken |-> <<>>, finals |-> {}]
    /\ trlog = NoTr

(* ------------------------------ helpers ------------------------------ *)
\* time.time() differences between consecutive frames (ms)
Deltas == {PAUSE_MS \div 2, PAUSE_MS}

Min(a, b) == IF a < b THEN a ELSE b

Running == main_pc \in {"pull", "slice", "drain", "put"}

\* a full-size frame is next in the for loop
FrameReady(c) ==
    /\ main_pc = "slice"
    /\ chunk # <<>>
    /\ Head(chunk) = c
    /\ frames < MaxFrames

\* history: the session r is used (fed or read)
Used(s, r) == [s EXCEPT !.misuse = @ \/ r.id \in s.finalized]

\* history: a final hypothesis is taken from session r
TookFinal(s, r) ==
    [s EXCEPT !.misuse = @ \/ r.id \in s.finalized,
              !.finalized = @ \cup {r.id},
              !.finals = @ + 1]

\* history: r is replaced by r2
Replaced(s, r, r2) == [s EXCEPT !.resets = IF r2.id # r.id THEN @ + 1 ELSE @]

HistSpeech(t) ==
    [speechSince |-> TRUE, lastSpeechT |-> t, anySpeech |-> TRUE,
     runCrossed |-> 0, runFinals |-> 0]

HistSilent(t, fin) ==
    [hist EXCEPT
       !.runCrossed = IF hist.anySpeech /\ t - hist.lastSpeechT >= PAUSE_MS
                      THEN Min(2, @ + 1) ELSE @,
       !.runFinals = IF fin THEN Min(2, @ + 1) ELSE @,
       !.speechSince = IF fin THEN FALSE ELSE @]

\* history: what happened on the frame just processed; hyp is the (stripped)
\* partial hypothesis the session holds after a speech frame was fed
Event(kind, t, fin, part, h, x) ==
    [kind |-> kind, fin |-> fin, part |-> part, t |-> t,
     hadSpeech |-> hist.speechSince, silence |-> t - hist.lastSpeechT,
     sinceEmit |-> t - partial_last_emit, hyp |-> h,
     read |-> x.read, final |-> x.final, translated |-> x.translated,
     said |-> x.said, job |-> x.job]

\* what tts.say did with the stripped text it was given
Said(text) == IF text = <<>> THEN "empty" ELSE "job"


Job(text, priority) ==
    [text |-> text, lang |-> TgtLang, id |-> jobs.next, priority |-> priority]

Enqueued(j) ==
    [jobs EXCEPT !.next = @ + 1,
                 !.finals = IF j.priority = 1 THEN @ \cup {j.id} ELSE @]

(* ------------------------- coordinator: main ------------------------- *)
\* chunk = audio_q.get()
Pull ==
    /\ main_pc = "pull"
    /\ frames < MaxFrames
    /\ \E c \in Chunks : chunk' = c
    /\ main_pc' = "slice"
    /\ UNCHANGED <<now, last_voice_time, got_voice, partial_buf_text,
                   partial_last_emit, rec, partials, say_job>>
    /\ UNCHANGED <<ttsVars, p2Vars, histVars>>

\* the for loop over the chunk has ended
SliceEnd ==
    /\ main_pc = "slice"
    /\ chunk = <<>>
    /\ main_pc' = "pull"
    /\ UNCHANGED <<now, last_voice_time, got_voice, partial_buf_text,
                   partial_last_emit, rec, partials, chunk, say_job>>
    /\ UNCHANGED <<ttsVars, p2Vars, histVars>>

\* if len(frame) < frame_bytes: continue
SkipShort ==
    /\ main_pc = "slice"
    /\ chunk # <<>>
    /\ Head(chunk) = "x"
    /\ chunk' = Tail(chunk)
    /\ UNCHANGED <<now, last_voice_time, got_voice, partial_buf_text,
                   partial_last_emit, rec, partials, main_pc, say_job>>
    /\ UNCHANGED <<ttsVars, p2Vars, histVars>>

\* rec.AcceptWaveform(frame) raises: nothing in main catches it
FeedRaises ==
    /\ \E c \in {"S", "N"} : FrameReady(c)
    /\ \E d \in Deltas :
         /\ now' = now + d
         /\ ev' = Event("crash", now + d, FALSE, FALSE, T_empty, NoX)
    /\ chunk' = Tail(chunk)
    /\ main_pc' = "crashed"
    /\ frames' = frames + 1
    /\ sess' = Used(sess, rec)
    /\ UNCHANGED <<last_voice_time, got_voice, partial_buf_text,
                   partial_last_emit, rec, partials, say_job>>
    /\ UNCHANGED <<ttsVars, p2Vars, hist, partials_emitted, jobs, trlog>>

\* a speech frame on which the partial branch is not entered
SpeechFrameQuiet ==
    /\ FrameReady("S")
    /\ \E d \in Deltas, h \in Hyps :
         /\ ~PartialDue(partials, now + d, partial_last_emit)
         /\ now' = now + d
         /\ rec' = AcceptWaveform(rec)
         /\ last_voice_time' = now + d
         /\ ev' = Event("speech", now + d, FALSE, FALSE, Strip(h), NoX)
         /\ hist' = HistSpeech(now + d)
    /\ got_voice' = TRUE
    /\ chunk' = Tail(chunk)
    /\ frames' = frames + 1
    /\ sess' = Used(sess, rec)
    /\ UNCHANGED <<partial_buf_text, partial_last_emit, partials, main_pc,
                   say_job>>
    /\ UNCHANGED <<ttsVars, p2Vars, partials_emitted, jobs, trlog>>

\* a speech frame on which rec.PartialResult() is read
SpeechFramePartial ==
    /\ FrameReady("S")
    /\ \E d \in Deltas, h \in Hyps, env \in TrEnvs :
         LET t == now + d
             partial == Strip(h)
             res == translate_text(SrcLang, TgtLang, partial, env[1], env[2])
             text == Strip(res.out)
             emit == AcceptPartial(partial, partial_buf_text)
             fed == AcceptWaveform(rec)
         IN  /\ PartialDue(partials, t, partial_last_emit)
             /\ now' = t
             /\ rec' = fed
             /\ last_voice_time' = t
             /\ ev' = Event("speech", t, FALSE, emit, partial,
                            [read |-> fed, final |-> T_empty,
                             translated |-> emit,
                             said |-> IF emit THEN Said(text) ELSE "none",
                             job |-> IF emit /\ text # <<>> THEN jobs.next
                                     ELSE 0])
             /\ hist' = HistSpeech(t)
             /\ IF emit
                THEN /\ partial_buf_text' = partial
                     /\ partial_last_emit' = t
                     /\ partials_emitted' =
                          Append(partials_emitted,
                                 [text |-> partial, session |-> rec.id])
                     /\ IF text # <<>>
                        THEN /\ q' = Append(q, Job(text, 0))
                             /\ jobs' = Enqueued(Job(text, 0))
                        ELSE UNCHANGED <<q, jobs>>
                ELSE UNCHANGED <<partial_buf_text, partial_last_emit,
                                 partials_emitted, q, jobs>>
    /\ got_voice' = TRUE
    /\ chunk' = Tail(chunk)
    /\ frames' = frames + 1
    /\ sess' = Used(sess, rec)
    /\ UNCHANGED <<partials, main_pc, say_job, worker_pc, worker_job, p2Vars,
                   trlog>>

\* rec.PartialResult() (or json.loads of it) raises
PartialRaises ==
    /\ FrameReady("S")
    /\ \E d \in Deltas :
         /\ PartialDue(partials, now + d, partial_last_emit)
         /\ now' = now + d
         /\ last_voice_time' = now + d
         /\ ev' = Event("crash", now + d, FALSE, FALSE, T_empty,
                        [NoX EXCEPT !.read = AcceptWaveform(rec)])
         /\ hist' = HistSpeech(now + d)
    /\ rec' = AcceptWaveform(rec)
    /\ got_voice' = TRUE
    /\ chunk' = Tail(chunk)
    /\ main_pc' = "crashed"
    /\ frames' = frames + 1
    /\ sess' = Used(sess, rec)
    /\ UNCHANGED <<partial_buf_text, partial_last_emit, partials, say_job>>
    /\ UNCHANGED <<ttsVars, p2Vars, partials_emitted, jobs, trlog>>

\* a silent frame that does not close the phrase
SilentFrameIdle ==
    /\ FrameReady("N")
    /\ \E d \in Deltas :
         /\ ~FinalizeDue(got_voice, now + d, last_voice_time)
         /\ now' = now + d
         /\ rec' = AcceptWaveform(rec)
         /\ ev' = Event("silence", now + d, FALSE, FALSE, T_empty, NoX)
         /\ hist' = HistSilent(now + d, FALSE)
    /\ chunk' = Tail(chunk)
    /\ frames' = frames + 1
    /\ sess' = Used(sess, rec)
    /\ UNCHANGED <<last_voice_time, got_voice, partial_buf_text,
                   partial_last_emit, partials, main_pc, say_job>>
    /\ UNCHANGED <<ttsVars, p2Vars, partials_emitted, jobs, trlog>>

\* a silent frame that closes the phrase: rec.FinalResult(), state reset,
\* translate_text, and tts.say(translated, tgt, priority=1) up to its drain
SilentFrameFinalize ==
    /\ FrameReady("N")
    /\ \E d \in Deltas, f \in Finals, env \in TrEnvs :
         LET t == now + d
             fed == AcceptWaveform(rec)
             final == Strip(f)
             res == translate_text(SrcLang, TgtLang, final, env[1], env[2])
             text == Strip(res.out)
         IN  /\ FinalizeDue(got_voice, t, last_voice_time)
             /\ now' = t
             /\ ev' = Event("silence", t, TRUE, FALSE, T_empty,
                            [read |-> fed, final |-> final,
                             translated |-> EmitFinal(final),
                             said |-> IF EmitFinal(final) THEN Said(text)
                                      ELSE "none",
                             job |-> IF EmitFinal(final) /\ text # <<>>
                                     THEN jobs.next ELSE 0])
             /\ hist' = HistSilent(t, TRUE)
             /\ got_voice' = GotVoiceAfterFinalize
             /\ partial_buf_text' = BufAfterFinalize(partial_buf_text)
             /\ partial_last_emit' = 0
             /\ IF EmitFinal(final) /\ (SayDrains(text, 1) \/ text # <<>>)
                THEN \* say(): _drain_queue() if priority == 1, then put
                     /\ rec' = fed
                     /\ say_job' = Job(text, 1)
                     /\ main_pc' = IF SayDrains(text, 1) THEN "drain"
                                   ELSE "put"
                     /\ jobs' = Enqueued(Job(text, 1))
                     /\ sess' = TookFinal(Used(sess, rec), rec)
                ELSE \* no final text, or say() returns on empty text
                     /\ rec' = FreshSession(fed)
                     /\ sess' = Replaced(TookFinal(Used(sess, rec), rec),
                                         fed, FreshSession(fed))
                     /\ UNCHANGED <<say_job, main_pc, jobs>>
    /\ chunk' = Tail(chunk)
    /\ frames' = frames + 1
    /\ UNCHANGED <<last_voice_time, partials>>
    /\ UNCHANGED <<ttsVars, p2Vars, partials_emitted, trlog>>

\* rec.FinalResult() (or json.loads of it) raises
FinalRaises ==
    /\ FrameReady("N")
    /\ \E d \in Deltas :
         /\ FinalizeDue(got_voice, now + d, last_voice_time)
         /\ now' = now + d
         /\ ev' = Event("crash", now + d, TRUE, FALSE, T_empty,
                        [NoX EXCEPT !.read = AcceptWaveform(rec)])
         /\ hist' = HistSilent(now + d, TRUE)
    /\ rec' = AcceptWaveform(rec)
    /\ chunk' = Tail(chunk)
    /\ main_pc' = "crashed"
    /\ frames' = frames + 1
    /\ sess' = Used(sess, rec)
    /\ UNCHANGED <<last_voice_time, got_voice, partial_buf_text,
                   partial_last_emit, partials, say_job>>
    /\ UNCHANGED <<ttsVars, p2Vars, partials_emitted, jobs, trlog>>

(* ----------------------------- TTSWorker ----------------------------- *)
\* mutant: the drain reads the head and leaves it in the queue
DrainOne_peek(queue) == queue

\* _drain_queue: one self.q.get_nowait() that returns a job (discarded)
DrainOne(queue) == Tail(queue)

\* self.q.put((text, lang_code))
Put(queue, j) == Append(queue, j)

Drained(js, queue) == [js EXCEPT !.drained = @ \cup {Head(queue).id}]

\* main, inside tts.say(translated, tgt, priority=1): get_nowait() succeeds
SayDrainGet ==
    /\ main_pc = "drain"
    /\ q # <<>>
    /\ q' = DrainOne(q)
    /\ jobs' = Drained(jobs, q)
    /\ UNCHANGED <<mainVars, worker_pc, worker_job, p2Vars>>
    /\ UNCHANGED <<frames, ev, hist, sess, partials_emitted, trlog>>

\* main, inside _drain_queue: get_nowait() raises queue.Empty
SayDrainEmpty ==
    /\ main_pc = "drain"
    /\ q = <<>>
    /\ main_pc' = "put"
    /\ UNCHANGED <<now, last_voice_time, got_voice, partial_buf_text,
                   partial_last_emit, rec, partials, chunk, say_job>>
    /\ UNCHANGED <<ttsVars, p2Vars, histVars>>

\* main: self.q.put(...) ends say(); then the recognizer is replaced
SayPut ==
    /\ main_pc = "put"
    /\ q' = Put(q, say_job)
    /\ rec' = FreshSession(rec)
    /\ sess' = Replaced(sess, rec, FreshSession(rec))
    /\ main_pc' = "slice"
    /\ say_job' = NoJob
    /\ UNCHANGED <<now, last_voice_time, got_voice, partial_buf_text,
                   partial_last_emit, partials, chunk>>
    /\ UNCHANGED <<worker_pc, worker_job, p2Vars>>
    /\ UNCHANGED <<frames, ev, hist, partials_emitted, jobs, trlog>>

\* mutant: the queue is emptied on the way out
Interrupt_flush ==
    /\ Running
    /\ main_pc' = "exited"
    /\ q' = <<>>
    /\ UNCHANGED <<now, last_voice_time, got_voice, partial_buf_text,
                   partial_last_emit, rec, partials, chunk, say_job>>
    /\ UNCHANGED <<worker_pc, worker_job, p2Vars, histVars>>

\* except KeyboardInterrupt: done.set(); main returns
Interrupt ==
    /\ Running
    /\ main_pc' = "exited"
    /\ UNCHANGED <<now, last_voice_time, got_voice, partial_buf_text,
                   partial_last_emit, rec, partials, chunk, say_job>>
    /\ UNCHANGED <<ttsVars, p2Vars, histVars>>

\* the process lives until main returns or dies; the worker is a daemon
\* thread and ends with it
Alive == main_pc \notin {"exited", "crashed"}

\* _run: text, lang_code = self.q.get()
WorkerGet ==
    /\ Alive
    /\ worker_pc = "get"
    /\ q # <<>>
    /\ worker_job' = Head(q)
    /\ q' = Tail(q)
    /\ worker_pc' = "speak"
    /\ jobs' = [jobs EXCEPT !.taken = Append(@, Head(q).id)]
    /\ UNCHANGED <<mainVars, p2Vars>>
    /\ UNCHANGED <<frames, ev, hist, sess, partials_emitted, trlog>>

\* _run: a backend speaks the job (or the fallback prints it); back to get
WorkerSpoke ==
    /\ Alive
    /\ worker_pc = "speak"
    /\ worker_pc' = "get"
    /\ worker_job' = NoJob
    /\ UNCHANGED <<mainVars, q, p2Vars, histVars>>

\* mutant: a job whose synthesis failed goes back into the queue
WorkerSynthFails_requeue ==
    /\ Alive
    /\ worker_pc = "speak"
    /\ worker_pc' = "get"
    /\ worker_job' = NoJob
    /\ q' = Append(q, worker_job)
    /\ UNCHANGED <<mainVars, p2Vars, histVars>>

\* _run: synthesis fails (every backend returns False, or the call raises
\* and _run catches it); the job is gone; back to get
WorkerSynthFails ==
    /\ Alive
    /\ worker_pc = "speak"
    /\ worker_pc' = "get"
    /\ worker_job' = NoJob
    /\ UNCHANGED <<mainVars, q, p2Vars, histVars>>

(* --------------------- a second producer thread ---------------------- *)
\* texts the second producer passes to say
P2Texts == {T_blank, E_day}

\* say(): text = (text or "").strip(); if not text: return;
\* if priority == 1: self._drain_queue()
P2Call ==
    /\ p2_pc = "idle"
    /\ p2_calls < MaxCalls
    /\ p2_calls' = p2_calls + 1
    /\ \E raw \in P2Texts, pr \in {0, 1} :
         IF Strip(raw) = <<>>
         THEN UNCHANGED <<p2_pc, p2_job, jobs>>
         ELSE /\ p2_job' = Job(Strip(raw), pr)
              /\ p2_pc' = IF pr = 1 THEN "drain" ELSE "put"
              /\ jobs' = Enqueued(Job(Strip(raw), pr))
    /\ UNCHANGED <<mainVars, ttsVars>>
    /\ UNCHANGED <<frames, ev, hist, sess, partials_emitted, trlog>>

P2DrainGet ==
    /\ p2_pc = "drain"
    /\ q # <<>>
    /\ q' = DrainOne(q)
    /\ jobs' = Drained(jobs, q)
    /\ UNCHANGED <<mainVars, worker_pc, worker_job, p2Vars>>
    /\ UNCHANGED <<frames, ev, hist, sess, partials_emitted, trlog>>

P2DrainEmpty ==
    /\ p2_pc = "drain"
    /\ q = <<>>
    /\ p2_pc' = "put"
    /\ UNCHANGED <<mainVars, ttsVars, p2_job, p2_calls, histVars>>

P2Put ==
    /\ p2_pc = "put"
    /\ q' = Put(q, p2_job)
    /\ p2_pc' = "idle"
    /\ p2_job' = NoJob
    /\ UNCHANGED <<mainVars, worker_pc, worker_job, p2_calls, histVars>>

(* ----------------------- translate_text alone ----------------------- *)
\* one call of translate_text on arguments and an environment drawn from
\* the bounded sets; trlog keeps the call and what it did
TranslateCall ==
    /\ trlog.calls < MaxTrCalls
    /\ \E src \in Langs, tgt \in Langs, text \in TrTexts,
          inst \in InstalledSets, eng \in EngineOutcomes :
         trlog' = [calls |-> trlog.calls + 1, src |-> src, tgt |-> tgt,
                   text |-> text, installed |-> inst, eng |-> eng,
                   res |-> translate_text(src, tgt, text, inst, eng)]
    /\ UNCHANGED <<mainVars, ttsVars, p2Vars>>
    /\ UNCHANGED <<frames, ev, hist, sess, partials_emitted, jobs>>

(* --------------------------- specifications -------------------------- *)
Coordinator ==
    \/ Pull \/ SliceEnd \/ SkipShort \/ FeedRaises
    \/ SpeechFrameQuiet \/ SpeechFramePartial \/ PartialRaises
    \/ SilentFrameIdle \/ SilentFrameFinalize \/ FinalRaises
    \/ SayDrainGet \/ SayDrainEmpty \/ SayPut
    \/ Interrupt

Worker == WorkerGet \/ WorkerSpoke \/ WorkerSynthFails

Producer2 == P2Call \/ P2DrainGet \/ P2DrainEmpty \/ P2Put

Next == Coordinator \/ Worker

\* the program as shipped: main is the only caller of tts.say
Spec == Init /\ [][Next]_vars

NextProducers ==
    \/ Coordinator /\ frames' <= MaxFramesProducers
    \/ Worker
    \/ Producer2

\* TTSWorker with a second thread calling say
SpecProducers == Init /\ [][NextProducers]_vars

\* translate_text applied to every bounded input
SpecTranslate == Init /\ [][TranslateCall]_vars

(* ------------------------------ claims ------------------------------- *)
\* C1: on every processed frame a finalize fires if and only if the frame
\* is silent, a speech frame has been processed since the previous finalize
\* (or since start), and the silence since the last speech frame is at
\* least PAUSE_MS.  (On a frame that dies in the recognizer only the "only
\* if" part is claimed.)
C1_FinalizeIff ==
    /\ ev.kind \in {"speech", "silence"} =>
         (ev.fin <=> (ev.kind = "silence" /\ ev.hadSpeech
                        /\ ev.silence >= PAUSE_MS))
    /\ ev.kind = "crash" /\ ev.fin => ev.hadSpeech /\ ev.silence >= PAUSE_MS

\* a finalize at exactly PAUSE_MS of silence
C1_Witness ==
    ev.kind = "silence" /\ ev.fin /\ ev.hadSpeech /\ ev.silence = PAUSE_MS

\* C2: after a burst of speech, a silence run that reaches PAUSE_MS gives
\* exactly one finalize: on the first silent frame whose elapsed silence is
\* at least PAUSE_MS, none before, none again until a new speech frame.
C2_OneFinalizePerRun ==
    /\ hist.runFinals = (IF hist.runCrossed >= 1 THEN 1 ELSE 0)
    /\ ev.fin => hist.runCrossed = 1 /\ ev.silence >= PAUSE_MS

\* silence goes on after the finalize, and no second one fired
C2_Witness ==
    /\ hist.runCrossed = 2
    /\ hist.runFinals = 1
    /\ ev.kind = "silence"
    /\ ~ev.fin

\* C3: a silent frame that arrives while got_voice is set and less than
\* PAUSE_MS after last_voice_time changes nothing (no finalize, got_voice,
\* partial_buf_text, partial_last_emit, last_voice_time, the queue and the
\* recognizer session stay), and every speech frame sets last_voice_time
\* to the frame's time.
C3_ShortGapChangesNothing ==
    [][/\ (/\ frames' = frames + 1
           /\ ev'.kind = "silence"
           /\ got_voice
           /\ now' - last_voice_time < PAUSE_MS)
          => /\ ~ev'.fin
             /\ got_voice'
             /\ partial_buf_text' = partial_buf_text
             /\ partial_last_emit' = partial_last_emit
             /\ last_voice_time' = last_voice_time
             /\ rec'.id = rec.id
             /\ q' = q
             /\ main_pc' = main_pc
       /\ (frames' = frames + 1 /\ ev'.kind = "speech")
          => last_voice_time' = now' /\ got_voice']_vars

\* a short gap inside a phrase that already emitted a partial
C3_Witness ==
    /\ ev.kind = "silence"
    /\ got_voice
    /\ ev.hadSpeech
    /\ ev.silence < PAUSE_MS
    /\ partial_buf_text # <<>>
    /\ partial_last_emit > 0

\* C4: the recognizer session is replaced exactly once per finalize and
\* never otherwise; a session whose final hypothesis was taken is never fed
\* or read again, whether or not the final text was empty.
C4_SessionReplacedPerFinalize ==
    /\ ~sess.misuse
    /\ sess.resets <= sess.finals
    /\ sess.finals <= sess.resets + 1
    /\ main_pc \in {"pull", "slice", "crashed"} => sess.resets = sess.finals
    /\ main_pc \in {"pull", "slice"} => rec.id \notin sess.finalized
    /\ rec.id = sess.resets + 1

\* after a finalize that enqueued nothing, the next frame went to the
\* replacement session
C4_Witness ==
    /\ sess.finals = 1
    /\ sess.resets = 1
    /\ jobs.finals = {}
    /\ rec.fed >= 1
    /\ ~sess.misuse

\* C5 (as claimed): no emitted partial has the text of the partial emitted
\* just before it, over the whole run, and none is shorter than
\* MIN_PARTIAL_CHARS.
C5_NoRepeatAnywhere ==
    \A i \in 1..Len(partials_emitted) :
      /\ Len(partials_emitted[i].text) >= MIN_PARTIAL_CHARS
      /\ i > 1 => partials_emitted[i].text # partials_emitted[i - 1].text

\* C5 (amended): within one segment (one recognizer session) no emitted
\* partial has the text of the partial emitted just before it, and no
\* emitted partial is shorter than MIN_PARTIAL_CHARS.
C5_NoRepeatInSegment ==
    \A i \in 1..Len(partials_emitted) :
      /\ Len(partials_emitted[i].text) >= MIN_PARTIAL_CHARS
      /\ (i > 1 /\ partials_emitted[i].session = partials_emitted[i - 1].session)
           => partials_emitted[i].text # partials_emitted[i - 1].text

\* two partials emitted in the same segment
C5_Witness ==
    /\ Len(partials_emitted) >= 2
    /\ partials_emitted[1].session = partials_emitted[2].session

\* the partial emitted last in the current segment before the frame in ev
\* (empty when there is none)
PrevPartial ==
    LET n == Len(partials_emitted) - (IF ev.part THEN 1 ELSE 0)
    IN  IF n >= 1 /\ partials_emitted[n].session = rec.id
        THEN partials_emitted[n].text
        ELSE T_empty

\* C6 (as claimed): on a speech frame a partial is emitted, and
\* partial_last_emit set to now, if and only if partials are enabled,
\* now - partial_last_emit >= PARTIAL_EVERY, and the session's partial
\* hypothesis differs from the last emitted one and has at least
\* MIN_PARTIAL_CHARS characters.
C6_PartialIffAtLeast ==
    ev.kind = "speech" =>
      /\ ev.part <=> /\ partials
                     /\ ev.sinceEmit >= PARTIAL_EVERY
                     /\ ev.hyp # PrevPartial
                     /\ Len(ev.hyp) >= MIN_PARTIAL_CHARS
      /\ ev.part => partial_last_emit = ev.t

\* C6 (amended): the same with now - partial_last_emit > PARTIAL_EVERY
\* (strictly), the last emitted partial being that of the current segment.
C6_PartialIffMoreThan ==
    ev.kind = "speech" =>
      /\ ev.part <=> /\ partials
                     /\ ev.sinceEmit > PARTIAL_EVERY
                     /\ ev.hyp # PrevPartial
                     /\ Len(ev.hyp) >= MIN_PARTIAL_CHARS
      /\ ev.part => partial_last_emit = ev.t /\ partial_buf_text = ev.hyp
      /\ ~ev.part => partial_last_emit = ev.t - ev.sinceEmit

\* a new, long enough hypothesis exactly PARTIAL_EVERY after the last
\* emission is not emitted
C6_Witness ==
    /\ ev.kind = "speech"
    /\ partials
    /\ ev.sinceEmit = PARTIAL_EVERY
    /\ ev.hyp # PrevPartial
    /\ Len(ev.hyp) >= MIN_PARTIAL_CHARS
    /\ ~ev.part

\* C7: when say(job, priority=1) ends, the pending queue holds exactly the
\* new job, whatever the worker and any other producer did meanwhile.
C7_DrainLeavesOnlyNewJob ==
    [][/\ (main_pc = "put" /\ main_pc' = "slice") => q' = <<say_job>>
       /\ (p2_pc = "put" /\ p2_pc' = "idle" /\ p2_job.priority = 1)
          => q' = <<p2_job>>]_vars

\* C8: every final handed to say with priority=1 is eventually spoken; a
\* job removed by a drain is gone for good, so no final may ever be drained.
C8_FinalNeverDrained == jobs.finals \cap jobs.drained = {}

\* C9: translate_text never raises; when the pair is not installed or the
\* engine raises it returns the input text and prints exactly one warning;
\* when the call succeeds it prints none.
C9_TranslateFailSoft ==
    trlog.calls > 0 =>
      LET failed == \/ ~(trlog.src \in trlog.installed
                           /\ trlog.tgt \in trlog.installed)
                    \/ trlog.eng \in {"raise_langs", "raise_get",
                                      "raise_translate"}
      IN  /\ ~trlog.res.raised
          /\ failed => trlog.res.out = trlog.text /\ trlog.res.warnings = 1
          /\ ~failed => trlog.res.warnings = 0

\* the engine raises on an installed pair and the text comes back
C9_Witness ==
    /\ trlog.calls > 0
    /\ trlog.eng = "raise_translate"
    /\ trlog.installed = {"es", "en"}
    /\ trlog.src = "es"
    /\ trlog.tgt = "en"
    /\ trlog.text = T_long
    /\ trlog.res.out = T_long
    /\ trlog.res.warnings = 1

\* C10: an error raised by the recognizer (AcceptWaveform, PartialResult,
\* FinalResult) does not halt the coordinator loop.
C10_RecognizerErrorDoesNotHalt == main_pc # "crashed"

\* job ids in s are strictly increasing (no id twice, oldest first)
Increasing(s) == \A i \in 1..Len(s) : \A j \in 1..Len(s) : i < j => s[i] < s[j]

\* C11: the worker takes the head of the queue (FIFO) and only when it holds
\* no job (one job at a time); when it is done with a job, synthesis failed
\* or not, the job is not put back or taken again and the worker is back at
\* q.get(), never gone.
C11_WorkerFifoDropsFailed ==
    [][/\ jobs.taken' # jobs.taken
          => /\ worker_pc = "get" /\ worker_job = NoJob /\ q # <<>>
             /\ worker_job' = Head(q)
             /\ q' = Tail(q)
             /\ jobs.taken' = Append(jobs.taken, Head(q).id)
       /\ (worker_pc = "speak" /\ worker_pc' # "speak")
          => /\ worker_pc' = "get"
             /\ q' = q
             /\ jobs.taken' = jobs.taken
             /\ worker_job' = NoJob
       /\ Increasing(jobs.taken')
       /\ worker_pc' \in {"get", "speak"}]_vars

\* the worker is done with one job and holds the next
C11_Witness ==
    /\ Len(jobs.taken) >= 2
    /\ worker_pc = "speak"
    /\ worker_job.id = jobs.taken[2]

\* C13: whenever got_voice is false, partial_buf_text is empty and
\* partial_last_emit is 0 (so the buffer is empty at every switch to ACTIVE
\* and right after every finalize).
C13_SilentMeansCleared ==
    ~got_voice => partial_buf_text = T_empty /\ partial_last_emit = 0

\* after the finalize of a segment that emitted a partial
C13_Witness ==
    /\ ~got_voice
    /\ sess.finals >= 1
    /\ Len(partials_emitted) >= 1
    /\ partial_buf_text = T_empty

\* the queue q2 is q1 with one job appended
Handed(q1, q2) == Len(q2) = Len(q1) + 1 /\ q1 = SubSeq(q2, 1, Len(q1))

\* C12: jobs reach the queue in the order they were made (a job handed over
\* goes to the tail and is newer than every job handed over before it),
\* sessions follow one another, and a partial is only ever emitted from a
\* session that has not given its final: it comes from a session later than
\* every finalized one.
C12_OrderAndNoStalePartial ==
    [][/\ rec'.id >= rec.id
       /\ partials_emitted' # partials_emitted
          => /\ Len(partials_emitted') = Len(partials_emitted) + 1
             /\ partials_emitted'[Len(partials_emitted')].session = rec.id
             /\ \A f \in sess.finalized : rec.id > f
       /\ Len(q') > Len(q)
          => /\ Handed(q, q')
             /\ \A i \in 1..Len(q) : q[i].id < q'[Len(q')].id
             /\ \A k \in jobs.drained : k < q'[Len(q')].id
             /\ \A i \in 1..Len(jobs.taken) : jobs.taken[i] < q'[Len(q')].id
             /\ q'[Len(q')].priority = 1 => rec.id \in sess.finalized]_vars

\* a final is in the queue and behind it a partial of the next session
C12_Witness ==
    /\ Len(q) = 2
    /\ q[1].priority = 1
    /\ q[2].priority = 0
    /\ sess.finalized = {1}
    /\ partials_emitted # <<>>
    /\ partials_emitted[Len(partials_emitted)].session = 2

\* C14: every full-size frame the loop takes (the recognizer not raising on
\* it) is the oldest one left in the chunk and is given once to the session
\* that is live; a hypothesis read on that frame is read from that session
\* with the frame already in it; a replacement session starts with no frame,
\* so the frame that triggers a finalize went to the old session.
C14_FedOnceBeforeRead ==
    [][/\ (frames' = frames + 1 /\ ~(ev'.kind = "crash" /\ ev'.read = NoRead))
          => /\ chunk # <<>>
             /\ Head(chunk) \in {"S", "N"}
             /\ chunk' = Tail(chunk)
             /\ ev'.read # NoRead
                => ev'.read = [id |-> rec.id, fed |-> rec.fed + 1]
             /\ ev'.fin => ev'.read # NoRead
             /\ IF rec'.id = rec.id
                THEN rec'.fed = rec.fed + 1
                ELSE ev'.fin /\ rec'.fed = 0
       /\ frames' = frames
          => \/ rec' = rec
             \/ rec'.id > rec.id /\ rec'.fed = 0]_vars

\* a finalize read the final from the old session, which held at least two
\* frames, and the replacement holds none
C14_Witness ==
    /\ ev.kind = "silence"
    /\ ev.fin
    /\ ev.read.fed >= 2
    /\ rec.id = ev.read.id + 1
    /\ rec.fed = 0

\* C15: once main has taken the interrupt nothing of the coordinator moves:
\* no frame, no segmenter variable, no session, no new job; and the step
\* that takes the interrupt leaves the queue as it is.
C15_NothingAfterInterrupt ==
    [][/\ main_pc = "exited"
          => /\ UNCHANGED <<mainVars, frames, ev, hist, sess,
                           partials_emitted>>
             /\ jobs'.next = jobs.next
             /\ Len(q') <= Len(q)
       /\ (main_pc # "exited" /\ main_pc' = "exited")
          => /\ q' = q
             /\ UNCHANGED <<now, last_voice_time, got_voice,
                           partial_buf_text, partial_last_emit, rec, chunk,
                           say_job, frames, ev, hist, sess,
                           partials_emitted, jobs>>]_vars

\* main has left with jobs still in the queue and frames still in the chunk
C15_Witness ==
    /\ main_pc = "exited"
    /\ q # <<>>
    /\ chunk # <<>>

\* the finalize step on the last frame is over (say has returned)
FinalizeOver(pc, e) == e.kind = "silence" /\ e.fin /\ pc \in {"pull", "slice"}

\* C16: whenever a segment finalizes with non-empty final text, no job
\* enqueued before the final is pending once the finalize step is over; a
\* final is put with priority 1 and only after a drain, a partial with
\* priority 0.
C16_NonEmptyFinalClearsPartials ==
    [][/\ (FinalizeOver(main_pc', ev') /\ ev'.final # <<>>)
          => \A i \in 1..Len(q') : q'[i].id = ev'.job
       /\ (main_pc = "put" /\ main_pc' = "slice")
          => /\ Handed(q, q')
             /\ q'[Len(q')].priority = 1
       /\ (main_pc # "put" /\ main_pc' = "put") => main_pc = "drain"
       /\ (frames' = frames + 1 /\ Len(q') > Len(q))
          => /\ ev'.part
             /\ q'[Len(q')].priority = 0]_vars

\* C17: a finalize whose final text is empty calls neither translate_text
\* nor tts.say and leaves queue and job records as they are, and yet
\* got_voice is false, partial_buf_text empty, partial_last_emit 0 and the
\* session is a fresh one when the frame is done.
C17_EmptyFinalOnlyResets ==
    [][(frames' = frames + 1 /\ ev'.kind = "silence" /\ ev'.fin
        /\ ev'.final = <<>>)
       => /\ ~ev'.translated
          /\ ev'.said = "none"
          /\ q' = q
          /\ jobs' = jobs
          /\ say_job' = say_job
          /\ main_pc' = "slice"
          /\ partials_emitted' = partials_emitted
          /\ ~got_voice'
          /\ partial_buf_text' = T_empty
          /\ partial_last_emit' = 0
          /\ rec' = [id |-> rec.id + 1, fed |-> 0]]_vars

\* an empty final has just reset the segmenter while a partial's job waits
C17_Witness ==
    /\ ev.kind = "silence"
    /\ ev.fin
    /\ ev.final = <<>>
    /\ ~got_voice
    /\ partials_emitted # <<>>
    /\ q # <<>>
    /\ rec.id = 2

\* C18: a call of say whose text strips to nothing leaves the queue as it
\* is, whatever the priority: no job is made or put, and no drain starts.
C18_EmptySayTouchesNothing ==
    [][(frames' = frames + 1 /\ ev'.said = "empty")
       => /\ q' = q
          /\ jobs' = jobs
          /\ say_job' = say_job
          /\ main_pc' = "slice"]_vars

\* say(priority=1) got a blank translation of a final and a job is still
\* waiting in the queue
C18_Witness ==
    /\ ev.fin
    /\ ev.final # <<>>
    /\ ev.said = "empty"
    /\ q # <<>>
    /\ jobs.drained = {}

\* the places job k can be in: the queue, the worker's hands (taken), the
\* drained jobs, or say's local before q.put
Places(k) ==
    (IF \E i \in 1..Len(q) : q[i].id = k THEN 1 ELSE 0)
    + (IF \E i \in 1..Len(jobs.taken) : jobs.taken[i] = k THEN 1 ELSE 0)
    + (IF k \in jobs.drained THEN 1 ELSE 0)
    + (IF say_job.id = k THEN 1 ELSE 0)

\* C19: every job made is in exactly one place: still to be put, pending,
\* taken by the worker, or drained; so no job is both drained and spoken,
\* and none is in the queue or taken twice.
C19_RemovedExactlyOnce ==
    /\ \A k \in 1..(jobs.next - 1) : Places(k) = 1
    /\ \A i \in 1..Len(q) : \A j \in 1..Len(q) : i # j => q[i].id # q[j].id
    /\ \A i \in 1..Len(jobs.taken) : \A j \in 1..Len(jobs.taken) :
         i # j => jobs.taken[i] # jobs.taken[j]

\* while main drains, the worker has taken a job too
C19_Witness ==
    /\ main_pc = "drain"
    /\ jobs.drained # {}
    /\ jobs.taken # <<>>
    /\ worker_pc = "speak"
    /\ q # <<>>

\* C20: without --partials no partial hypothesis is read, no priority-0 job
\* is made, and the queue never holds more than one job.
C20_NoPartialsAtMostOnePending ==
    ~partials
    => /\ Len(q) <= 1
       /\ partials_emitted = <<>>
       /\ ev.read # NoRead => ev.fin
       /\ jobs.finals = 1..(jobs.next - 1)
       /\ \A i \in 1..Len(q) : q[i].priority = 1

\* without --partials a second final has drained the first one
C20_Witness ==
    /\ ~partials
    /\ Len(q) = 1
    /\ jobs.drained # {}
====
